---------------------------- MODULE Spec2Model ----------------------------
(***************************************************************************)
(* Model of cpp/src/nonrigid_optimization/data_term.cpp: the pointwise     *)
(* data term of the KillingFusion / SobolevFusion optimisation on a 2D     *)
(* grid (data_term_at_location) and its Python adapter                     *)
(* (py_data_term_at_location).                                             *)
(*                                                                         *)
(* The kernel computes on C++ `float`, so the model carries IEEE-754       *)
(* binary32 values bit for bit (sign, biased exponent, fraction) and       *)
(* implements subtraction and multiplication with round-to-nearest-even,   *)
(* gradual underflow, overflow to infinity and NaN propagation.  Only the  *)
(* payload of a NaN is abstracted: every operation that produces a NaN     *)
(* produces the canonical quiet NaN, and no formula below distinguishes    *)
(* one NaN from another.                                                   *)
(***************************************************************************)
EXTENDS Integers, Sequences, FiniteSets, TLC

(***************************************************************************)
(* IEEE-754 binary32, the C++ type `float`.                                *)
(***************************************************************************)
\* Significand precision in bits (23 stored fraction bits and a hidden bit).
Precision == 24
\* Exponent bias.
Bias == 127
\* The all-ones biased exponent of infinities and NaNs.
ExpMax == 255

FracBits == Precision - 1
HiddenBit == 2^FracBits
\* Limb base of the wide (two-limb) unsigned integers used for exact results.
Limb == 2^Precision
HalfLimb == 2^(Precision \div 2)
\* Exponent of the least significant bit of a subnormal: 2^-149.
EMin == 2 - Bias - Precision

\* A float is a record [sign, exponent, fraction]: 1, 8 and 23 bits.
MkFloat(s, e, f) == [sign |-> s, exponent |-> e, fraction |-> f]

IsNaN(f) == f.exponent = ExpMax /\ f.fraction # 0
IsInf(f) == f.exponent = ExpMax /\ f.fraction = 0
IsFinite(f) == f.exponent < ExpMax
IsZero(f) == f.exponent = 0 /\ f.fraction = 0

QuietNaN == MkFloat(0, ExpMax, 2^(FracBits - 1))
Infinity(s) == MkFloat(s, ExpMax, 0)
Zero(s) == MkFloat(s, 0, 0)

\* A finite float is (-1)^sign * Mant * 2^Exp2 with Mant < 2^24.
Mant(f) == IF f.exponent = 0 THEN f.fraction ELSE HiddenBit + f.fraction
Exp2(f) == IF f.exponent = 0 THEN EMin ELSE f.exponent - Bias - FracBits

\* Op applied to the values of its operands, each evaluated once.
Apply2(Op(_, _), a, b) == CHOOSE r \in {Op(u, v) : u \in {a}, v \in {b}} : TRUE

Max2(a, b) == IF a >= b THEN a ELSE b
Min2(a, b) == IF a <= b THEN a ELSE b
Xor(a, b) == IF a = b THEN 0 ELSE 1

\* Number of bits of n, 0 <= n < 2^31, by bisection.
BitLen4(n) ==
    IF n >= 4 THEN (IF n >= 8 THEN 4 ELSE 3)
    ELSE IF n >= 2 THEN 2 ELSE n
BitLen8(n) == IF n >= 16 THEN 4 + BitLen4(n \div 16) ELSE BitLen4(n)
BitLen16(n) == IF n >= 256 THEN 8 + BitLen8(n \div 256) ELSE BitLen8(n)
BitLen(n) == IF n >= 65536 THEN 16 + BitLen16(n \div 65536) ELSE BitLen16(n)

\* Bit length of the wide unsigned integer hi * 2^24 + lo.
WideLen(hi, lo) == IF hi > 0 THEN Precision + BitLen(hi) ELSE BitLen(lo)

\* Encode M * 2^E, where M < 2^24 and either M >= 2^23 or E = EMin.
Pack(s, M, E) ==
    IF M >= HiddenBit
    THEN IF E + Bias + FracBits >= ExpMax
         THEN Infinity(s)
         ELSE MkFloat(s, E + Bias + FracBits, M - HiddenBit)
    ELSE MkFloat(s, 0, M)

\* (hi * 2^24 + lo) shifted right by sh > 0 bits, rounded to nearest, ties to
\* even.  The wide integer has at most Precision + sh bits.
ShiftRound(hi, lo, sh) ==
    IF sh > WideLen(hi, lo)
    THEN 0
    ELSE IF sh <= Precision
    THEN LET q == hi * 2^(Precision - sh) + (lo \div 2^sh)
             rem == lo % 2^sh
             half == 2^(sh - 1)
         IN  IF rem > half \/ (rem = half /\ q % 2 = 1) THEN q + 1 ELSE q
    ELSE LET k == sh - Precision
             q == hi \div 2^k
             rem == hi % 2^k
             half == 2^(k - 1)
         IN  IF \/ rem > half
                \/ (rem = half /\ lo > 0)
                \/ (rem = half /\ lo = 0 /\ q % 2 = 1)
             THEN q + 1
             ELSE q

\* Encode the rounded significand M at exponent E; rounding up may carry into
\* the next binade.
PackRounded(s, M, E) ==
    IF M = Limb THEN Pack(s, HiddenBit, E + 1) ELSE Pack(s, M, E)

\* The float nearest to the exact value (-1)^s * (hi * 2^24 + lo) * 2^E, the
\* wide integer being shifted by sh bits to fit the significand.
RoundShift(s, hi, lo, E, sh) ==
    IF hi = 0 /\ lo = 0
    THEN Zero(s)
    ELSE IF sh <= 0
    THEN Pack(s, lo * 2^(0 - sh), E + sh)
    ELSE PackRounded(s, ShiftRound(hi, lo, sh), E + sh)

\* The float nearest to the exact value (-1)^s * w * 2^E, w = <<hi, lo>> wide.
RoundPack(s, w, E) ==
    CHOOSE r \in {RoundShift(s, v[1], v[2], E,
                       Max2(WideLen(v[1], v[2]) - Precision, EMin - E)) :
                       v \in {w}} : TRUE

\* Exact product of two 24-bit significands as a wide integer <<hi, lo>>.
WideMul(a, b) ==
    LET a1 == a \div HalfLimb
        a0 == a % HalfLimb
        b1 == b \div HalfLimb
        b0 == b % HalfLimb
        cross == a1 * b0 + a0 * b1
        low == (cross % HalfLimb) * HalfLimb + a0 * b0
    IN  <<a1 * b1 + (cross \div HalfLimb) + (low \div Limb), low % Limb>>

\* a * b in binary32.
Multiply(a, b) ==
    IF IsNaN(a) \/ IsNaN(b)
    THEN QuietNaN
    ELSE IF IsInf(a) \/ IsInf(b)
    THEN IF IsZero(a) \/ IsZero(b)
         THEN QuietNaN
         ELSE Infinity(Xor(a.sign, b.sign))
    ELSE RoundPack(Xor(a.sign, b.sign), WideMul(Mant(a), Mant(b)),
                   Exp2(a) + Exp2(b))

fmul(a, b) == Apply2(Multiply, a, b)

fneg(a) == MkFloat(1 - a.sign, a.exponent, a.fraction)

\* Alignment distance beyond which the smaller operand only acts as a sticky bit.
GuardBits == Precision + 3

\* Sum of two finite floats, big having the larger (or equal) exponent.
AddAligned(big, small) ==
    LET d == Exp2(big) - Exp2(small)
        dE == Min2(d, GuardBits)
        Ms == IF d > GuardBits THEN Min2(Mant(small), 1) ELSE Mant(small)
        E == Exp2(big) - dE
        hi == IF dE <= Precision
              THEN Mant(big) \div 2^(Precision - dE)
              ELSE Mant(big) * 2^(dE - Precision)
        lo == IF dE <= Precision
              THEN (Mant(big) % 2^(Precision - dE)) * 2^dE
              ELSE 0
    IN  IF big.sign = small.sign
        THEN RoundPack(big.sign,
                       <<hi + ((lo + Ms) \div Limb), (lo + Ms) % Limb>>, E)
        ELSE IF hi = 0 /\ lo = Ms
        THEN Zero(0)
        ELSE IF hi = 0 /\ lo < Ms
        THEN RoundPack(small.sign, <<0, Ms - lo>>, E)
        ELSE IF lo >= Ms
        THEN RoundPack(big.sign, <<hi, lo - Ms>>, E)
        ELSE RoundPack(big.sign, <<hi - 1, lo + Limb - Ms>>, E)

\* a + b in binary32.
Add(a, b) ==
    IF IsNaN(a) \/ IsNaN(b)
    THEN QuietNaN
    ELSE IF IsInf(a)
    THEN IF IsInf(b) /\ a.sign # b.sign THEN QuietNaN ELSE a
    ELSE IF IsInf(b)
    THEN b
    ELSE IF IsZero(a) /\ IsZero(b)
    THEN Zero(IF a.sign = 1 /\ b.sign = 1 THEN 1 ELSE 0)
    ELSE IF Exp2(a) >= Exp2(b)
    THEN AddAligned(a, b)
    ELSE AddAligned(b, a)

fadd(a, b) == Apply2(Add, a, b)

\* a - b in binary32.
fsub(a, b) == fadd(a, fneg(b))


\* Comparison of two floats as values: numerically equal (+0 and -0 are equal),
\* or both NaN.
SameFloat(a, b) ==
    \/ IsNaN(a) /\ IsNaN(b)
    \/ /\ ~IsNaN(a)
       /\ ~IsNaN(b)
       /\ \/ a = b
          \/ IsZero(a) /\ IsZero(b)

\* The C++ operator == on floats: false whenever an operand is NaN.
FloatEq(a, b) == ~IsNaN(a) /\ ~IsNaN(b) /\ SameFloat(a, b)

(***************************************************************************)
(* Float literals of the source and the values the inputs are drawn from.  *)
(***************************************************************************)
\* 10.0F
Ten == MkFloat(0, Bias + 3, 2^(FracBits - 2))
\* 0.5F
Half == MkFloat(0, Bias - 1, 0)
One == MkFloat(0, Bias, 0)
Two == MkFloat(0, Bias + 1, 0)
Quarter == MkFloat(0, Bias - 2, 0)
Eighth == MkFloat(0, Bias - 3, 0)
Five == MkFloat(0, Bias + 2, 2^(FracBits - 2))
Three == MkFloat(0, Bias + 1, 2^(FracBits - 1))
\* 0.1F = 0x3DCCCCCD, not a dyadic rational: its products are inexact.
Tenth == MkFloat(0, Bias - 4, 5033165)
\* FLT_MAX
FltMax == MkFloat(0, ExpMax - 1, HiddenBit - 1)
\* 2^61
Pow61 == MkFloat(0, Bias + 61, 0)
\* 3 * 2^-76: its square falls in the subnormal range.
Tiny == MkFloat(0, Bias - 75, 2^(FracBits - 1))
\* 3 * 2^-149, a subnormal.
Sub3 == MkFloat(0, 0, 3)

LiveSamples ==
    {One, Half, Tenth, FltMax, Pow61, Infinity(0), QuietNaN, Tiny, Zero(1)}
CanonicalSamples ==
    {Half, Tenth, Zero(0), fneg(FltMax), fneg(Pow61), Infinity(0), One}
GradXSamples ==
    {Two, Zero(0), Tenth, FltMax, Pow61, Infinity(0), QuietNaN, Sub3, fneg(One)}
GradYSamples ==
    {fneg(One), fneg(Pow61), Sub3, Infinity(1)}

(***************************************************************************)
(* eig::MatrixXf: a dense matrix of float in column-major storage.         *)
(***************************************************************************)
\* Largest field shape of the model.
MaxRows == 2
MaxCols == 3

\* Linear index of coefficient (row, col), both 0-based.
Index(m, row, col) == row + col * m.rows + 1

\* m(row, col)
Coeff(m, row, col) == m.data[Index(m, row, col)]

InRange(m, row, col) == row \in 0..(m.rows - 1) /\ col \in 0..(m.cols - 1)

\* m(row, col) = v, done by the owner of the field between calls.
SetCoeff(m, row, col, v) ==
    [m EXCEPT !.data = [@ EXCEPT ![Index(m, row, col)] = v]]

\* A rows x cols matrix filled with one value.
Constant(rows, cols, v) ==
    [rows |-> rows, cols |-> cols, data |-> [i \in 1..(rows * cols) |-> v]]

(***************************************************************************)
(* data_term_at_location                                                   *)
(***************************************************************************)
\* Variant: the kernel samples row x, column y; a cell outside the matrix
\* reads as stray memory.
SampleTransposed(field, x, y) ==
    IF InRange(field, x, y) THEN Coeff(field, x, y) ELSE Zero(0)

\* field(y, x): the kernel samples row y, column x.
SampleAt(field, x, y) == Coeff(field, y, x)

\* Variant: the two SDF values are added.
DifferenceSum(live_sdf, canonical_sdf) == fadd(live_sdf, canonical_sdf)

\* float difference = live_sdf - canonical_sdf;
Difference(live_sdf, canonical_sdf) == fsub(live_sdf, canonical_sdf)

\* Variant: the scaling factor is 100.0F.
scaling_hundred == MkFloat(0, Bias + 6, 4718592)

\* float scaling_factor = 10.0F;
scaling_factor == Ten

\* Variant: the gradient is not scaled.
DataGradientUnscaled(difference, gradient) == fmul(difference, gradient)

\* Variant: the scaling factor is added to the product.
DataGradientPlusScale(difference, gradient) ==
    fadd(fmul(difference, gradient), Ten)

\* data_gradient_{x,y} = difference * gradient_{x,y} * scaling_factor;
DataGradient(difference, gradient) ==
    fmul(fmul(difference, gradient), scaling_factor)

\* Variant: the factor 0.5F is missing.
LocalEnergyNoHalf(difference) == fmul(difference, difference)

\* local_energy_contribution = 0.5F * difference * difference;
LocalEnergy(difference) == fmul(fmul(Half, difference), difference)

\* An assignment to an output slot overwrites what the slot held.
Store(old, new) == new

\* Variant: the kernel keeps the difference in the sampled cell of the live
\* field.
data_term_in_place(wl, cf, xx, yy, gxf, gyf, out) ==
    [warped_live_field |->
         SetCoeff(wl, yy, xx, fsub(Coeff(wl, yy, xx), Coeff(cf, yy, xx))),
     canonical_field |-> cf,
     live_gradient_x_field |-> gxf,
     live_gradient_y_field |-> gyf,
     data_gradient_x |->
         fmul(fmul(fsub(Coeff(wl, yy, xx), Coeff(cf, yy, xx)),
                   Coeff(gxf, yy, xx)), Ten),
     data_gradient_y |->
         fmul(fmul(fsub(Coeff(wl, yy, xx), Coeff(cf, yy, xx)),
                   Coeff(gyf, yy, xx)), Ten),
     local_energy_contribution |->
         fmul(fmul(Half, fsub(Coeff(wl, yy, xx), Coeff(cf, yy, xx))),
              fsub(Coeff(wl, yy, xx), Coeff(cf, yy, xx)))]

\* The memory the call can reach, after the call: the four fields (const
\* references) and the three output slots (float references), whose previous
\* contents are out.
data_term_at_location(wl, cf, xx, yy, gxf, gyf, out) ==
    LET live_sdf == SampleAt(wl, xx, yy)
        canonical_sdf == SampleAt(cf, xx, yy)
        difference == Difference(live_sdf, canonical_sdf)
        gradient_x == SampleAt(gxf, xx, yy)
        gradient_y == SampleAt(gyf, xx, yy)
    IN  [warped_live_field |-> wl,
         canonical_field |-> cf,
         live_gradient_x_field |-> gxf,
         live_gradient_y_field |-> gyf,
         data_gradient_x |->
             Store(out.data_gradient_x, DataGradient(difference, gradient_x)),
         data_gradient_y |->
             Store(out.data_gradient_y, DataGradient(difference, gradient_y)),
         local_energy_contribution |->
             Store(out.local_energy_contribution, LocalEnergy(difference))]


(***************************************************************************)
(* py_data_term_at_location                                                *)
(***************************************************************************)
\* A Python float is an IEEE-754 binary64: 11 exponent bits (bias 1023) and
\* 52 fraction bits, held here as the upper 23 and the lower 29 bits.
DoubleBias == 8 * Bias + 7
DoubleExpMax == 8 * ExpMax + 7

MkDouble(s, e, fhi, flo) ==
    [sign |-> s, exponent |-> e, fraction_hi |-> fhi, fraction_lo |-> flo]

\* The conversion float -> double that bp::make_tuple applies to a C++ float:
\* exact widening; a subnormal float becomes a normal double.
FloatToDouble(f) ==
    IF f.exponent = ExpMax
    THEN MkDouble(f.sign, DoubleExpMax, f.fraction, 0)
    ELSE IF f.exponent > 0
    THEN MkDouble(f.sign, f.exponent - Bias + DoubleBias, f.fraction, 0)
    ELSE IF f.fraction = 0
    THEN MkDouble(f.sign, 0, 0, 0)
    ELSE LET len == BitLen(f.fraction)
         IN  MkDouble(f.sign,
                      len - 1 + EMin + DoubleBias,
                      (f.fraction - 2^(len - 1)) * 2^(Precision - len),
                      0)

\* Variant: the two components are stored in the opposite order.
RowVector2fSwapped(a, b) == <<b, a>>

\* eig::RowVector2f data_gradient; data_gradient(0) = a; data_gradient(1) = b;
RowVector2f(a, b) == <<a, b>>

\* float data_gradient_x, data_gradient_y, local_energy_contribution;
\* automatic variables without initializer.  Their indeterminate contents are
\* never read (the kernel only assigns them); one bit pattern stands for them.
Indeterminate == Zero(0)
FreshSlots ==
    [data_gradient_x |-> Indeterminate,
     data_gradient_y |-> Indeterminate,
     local_energy_contribution |-> Indeterminate]

\* The adapter receives the four fields by value, calls the kernel on its
\* copies and returns bp::make_tuple(data_gradient_out, energy).
py_data_term_at_location(wl, cf, xx, yy, gxf, gyf) ==
    LET r == data_term_at_location(wl, cf, xx, yy, gxf, gyf, FreshSlots)
        data_gradient == RowVector2f(r.data_gradient_x, r.data_gradient_y)
    IN  <<data_gradient, FloatToDouble(r.local_energy_contribution)>>

(***************************************************************************)
(* State                                                                   *)
(***************************************************************************)
VARIABLES
    \* the caller's four fields and the location
    warped_live_field, canonical_field,
    live_gradient_x_field, live_gradient_y_field, x, y,
    \* the caller's output slots of the reference call, and whether it was made
    data_gradient_x, data_gradient_y, local_energy_contribution, called,
    \* the latest other call on the same fields: [call, result]
    other,
    \* concurrent invocations: position, location and output slots of each
    \* thread, and the stack frames holding the kernel's automatic variables
    pc, at, tout, frame

fields ==
    <<warped_live_field, canonical_field,
      live_gradient_x_field, live_gradient_y_field>>
slots == <<data_gradient_x, data_gradient_y, local_energy_contribution>>
threadVars == <<pc, at, tout, frame>>
vars == <<fields, x, y, slots, called, other, threadVars>>

\* Number of concurrent invocations.
NumThreads == 2
Threads == 1..NumThreads

Outputs(r) ==
    [data_gradient_x |-> r.data_gradient_x,
     data_gradient_y |-> r.data_gradient_y,
     local_energy_contribution |-> r.local_energy_contribution]

CurrentSlots ==
    [data_gradient_x |-> data_gradient_x,
     data_gradient_y |-> data_gradient_y,
     local_energy_contribution |-> local_energy_contribution]

FreshFrame ==
    [live_sdf |-> Indeterminate, canonical_sdf |-> Indeterminate,
     difference |-> Indeterminate,
     gradient_x |-> Indeterminate, gradient_y |-> Indeterminate]

\* Values of the cells no call samples.
LiveFill == Quarter
CanonicalFill == Eighth
GradXFill == Three
GradYFill == Five

\* Everything but the fields and the location.
InitRest ==
    /\ data_gradient_x = Indeterminate
    /\ data_gradient_y = Indeterminate
    /\ local_energy_contribution = Indeterminate
    /\ called = FALSE
    /\ other = [call |-> "none", result |-> FreshSlots]
    /\ pc = [t \in Threads |-> "idle"]
    /\ at = [t \in Threads |-> <<0, 0>>]
    /\ tout = [t \in Threads |-> FreshSlots]
    /\ frame = [t \in Threads |-> FreshFrame]

\* Four fields of one shape holding the given values at (row yy, column xx).
InitFields(rows, cols, xx, yy, live, canonical, gradx, grady) ==
    /\ x = xx
    /\ y = yy
    /\ warped_live_field = SetCoeff(Constant(rows, cols, LiveFill), yy, xx, live)
    /\ canonical_field =
           SetCoeff(Constant(rows, cols, CanonicalFill), yy, xx, canonical)
    /\ live_gradient_x_field =
           SetCoeff(Constant(rows, cols, GradXFill), yy, xx, gradx)
    /\ live_gradient_y_field =
           SetCoeff(Constant(rows, cols, GradYFill), yy, xx, grady)

\* Locations <<x, y>> of the sequential calls, in a MaxRows x MaxCols field.
KernelCells == {<<MaxCols - 1, 0>>, <<0, MaxRows - 1>>}

Init ==
    /\ \E c \in KernelCells, live \in LiveSamples, canonical \in CanonicalSamples,
          gradx \in GradXSamples, grady \in GradYSamples :
           InitFields(MaxRows, MaxCols, c[1], c[2], live, canonical, gradx, grady)
    /\ InitRest

(***************************************************************************)
(* Sequential calls                                                        *)
(***************************************************************************)
\* data_term_at_location(warped_live_field, canonical_field, x, y,
\*     live_gradient_x_field, live_gradient_y_field,
\*     data_gradient_x, data_gradient_y, local_energy_contribution)
Call ==
    \E r \in {data_term_at_location(warped_live_field, canonical_field, x, y,
                 live_gradient_x_field, live_gradient_y_field, CurrentSlots)} :
        /\ warped_live_field' = r.warped_live_field
        /\ canonical_field' = r.canonical_field
        /\ live_gradient_x_field' = r.live_gradient_x_field
        /\ live_gradient_y_field' = r.live_gradient_y_field
        /\ data_gradient_x' = r.data_gradient_x
        /\ data_gradient_y' = r.data_gradient_y
        /\ local_energy_contribution' = r.local_energy_contribution
        /\ called' = TRUE
        /\ UNCHANGED <<x, y, other, threadVars>>

\* The same call again, into other output slots.
CallRepeat ==
    \E r \in {data_term_at_location(warped_live_field, canonical_field, x, y,
                 live_gradient_x_field, live_gradient_y_field, FreshSlots)} :
        /\ warped_live_field' = r.warped_live_field
        /\ canonical_field' = r.canonical_field
        /\ live_gradient_x_field' = r.live_gradient_x_field
        /\ live_gradient_y_field' = r.live_gradient_y_field
        /\ other' = [call |-> "repeat", result |-> Outputs(r)]
        /\ UNCHANGED <<x, y, slots, called, threadVars>>

\* The call with the two SDF arguments exchanged.
CallSwapped ==
    \E r \in {data_term_at_location(canonical_field, warped_live_field, x, y,
                 live_gradient_x_field, live_gradient_y_field, FreshSlots)} :
        /\ canonical_field' = r.warped_live_field
        /\ warped_live_field' = r.canonical_field
        /\ live_gradient_x_field' = r.live_gradient_x_field
        /\ live_gradient_y_field' = r.live_gradient_y_field
        /\ other' = [call |-> "swapped", result |-> Outputs(r)]
        /\ UNCHANGED <<x, y, slots, called, threadVars>>

\* 2.0F * v, as the caller computes it.
Doubled(v) == fmul(Two, v)

\* The call on copies of the gradient fields whose values at (x, y) are doubled.
CallDoubled ==
    \E r \in {data_term_at_location(warped_live_field, canonical_field, x, y,
                 SetCoeff(live_gradient_x_field, y, x,
                          Doubled(Coeff(live_gradient_x_field, y, x))),
                 SetCoeff(live_gradient_y_field, y, x,
                          Doubled(Coeff(live_gradient_y_field, y, x))),
                 FreshSlots)} :
        /\ warped_live_field' = r.warped_live_field
        /\ canonical_field' = r.canonical_field
        /\ other' = [call |-> "doubled", result |-> Outputs(r)]
        /\ UNCHANGED <<live_gradient_x_field, live_gradient_y_field,
                       x, y, slots, called, threadVars>>

\* The call through the Python adapter, which works on copies of the fields.
PyCall ==
    /\ other' = [call |-> "py",
                 result |-> py_data_term_at_location(warped_live_field,
                                canonical_field, x, y,
                                live_gradient_x_field, live_gradient_y_field)]
    /\ UNCHANGED <<fields, x, y, slots, called, threadVars>>

Next == Call \/ CallRepeat \/ CallSwapped \/ CallDoubled \/ PyCall

Spec == Init /\ [][Next]_vars


(***************************************************************************)
(* Calls at any location of fields of any shape, the owner of the fields   *)
(* writing other cells between the first call and its repetition.          *)
(***************************************************************************)
\* Number of cells the owner rewrites between the two calls.
MaxEdits == 1

\* The value the owner writes.
EditValue == FltMax

FieldOf(k) ==
    CASE k = 1 -> warped_live_field
      [] k = 2 -> canonical_field
      [] k = 3 -> live_gradient_x_field
      [] k = 4 -> live_gradient_y_field

\* The cells other than (row y, column x) that the owner has rewritten.
Edited ==
    {e \in (1..4) \X (0..(MaxRows - 1)) \X (0..(MaxCols - 1)) :
        /\ InRange(FieldOf(e[1]), e[2], e[3])
        /\ <<e[2], e[3]>> # <<y, x>>
        /\ Coeff(FieldOf(e[1]), e[2], e[3]) = EditValue}

InitIndex ==
    /\ \E rows \in 1..MaxRows, cols \in 1..MaxCols :
         \E xx \in 0..(cols - 1), yy \in 0..(rows - 1), live \in {One, Tenth} :
            InitFields(rows, cols, xx, yy, live, Half, Two, fneg(One))
    /\ InitRest

FirstCall == ~called /\ Call

\* The owner writes one cell, other than (row y, column x), of one field.
Edit ==
    /\ called
    /\ other.call = "none"
    /\ Cardinality(Edited) < MaxEdits
    /\ \E k \in 1..4, row \in 0..(MaxRows - 1), col \in 0..(MaxCols - 1) :
          /\ InRange(FieldOf(k), row, col)
          /\ <<row, col>> # <<y, x>>
          /\ Coeff(FieldOf(k), row, col) # EditValue
          /\ warped_live_field' =
                 IF k = 1 THEN SetCoeff(warped_live_field, row, col, EditValue)
                 ELSE warped_live_field
          /\ canonical_field' =
                 IF k = 2 THEN SetCoeff(canonical_field, row, col, EditValue)
                 ELSE canonical_field
          /\ live_gradient_x_field' =
                 IF k = 3 THEN SetCoeff(live_gradient_x_field, row, col, EditValue)
                 ELSE live_gradient_x_field
          /\ live_gradient_y_field' =
                 IF k = 4 THEN SetCoeff(live_gradient_y_field, row, col, EditValue)
                 ELSE live_gradient_y_field
    /\ UNCHANGED <<x, y, slots, called, other, threadVars>>

NextIndex == FirstCall \/ Edit \/ CallRepeat

SpecIndex == InitIndex /\ [][NextIndex]_vars

(***************************************************************************)
(* Concurrent invocations on the same four fields, one statement of        *)
(* data_term_at_location at a time, each thread with its own output slots. *)
(***************************************************************************)
\* Variant: the kernel's variables are static, one frame for all threads.
FrameShared(t) == 1

\* The stack frame holding the automatic variables of thread t's invocation.
FrameOf(t) == t

\* A MaxRows x MaxCols matrix whose cells repeat the values of a sequence.
Pattern(values) ==
    [rows |-> MaxRows, cols |-> MaxCols,
     data |-> [i \in 1..(MaxRows * MaxCols) |->
                   values[((i - 1) % Len(values)) + 1]]]

\* Locations <<x, y>> the threads are called at.
ThreadCells == {<<0, 0>>, <<MaxCols - 1, MaxRows - 1>>}

InitThreads ==
    /\ x = 0
    /\ y = 0
    /\ warped_live_field =
           Pattern(<<One, Half, Tenth, Quarter, Two, Three, Five>>)
    /\ canonical_field =
           Pattern(<<Half, Eighth, Zero(0), One, Tenth, Quarter, Ten>>)
    /\ live_gradient_x_field =
           Pattern(<<Two, Three, fneg(One), Five, Half, Eighth, One>>)
    /\ live_gradient_y_field =
           Pattern(<<fneg(One), Five, Tenth, Two, Quarter, Ten, Three>>)
    /\ data_gradient_x = Indeterminate
    /\ data_gradient_y = Indeterminate
    /\ local_energy_contribution = Indeterminate
    /\ called = FALSE
    /\ other = [call |-> "none", result |-> FreshSlots]
    /\ pc = [t \in Threads |-> "L38"]
    /\ at \in [Threads -> ThreadCells]
    /\ tout = [t \in Threads |-> FreshSlots]
    /\ frame = [t \in Threads |-> FreshFrame]

\* float live_sdf = warped_live_field(y, x);
Stmt38(t) ==
    /\ pc[t] = "L38"
    /\ frame' = [frame EXCEPT ![FrameOf(t)].live_sdf =
                     SampleAt(warped_live_field, at[t][1], at[t][2])]
    /\ pc' = [pc EXCEPT ![t] = "L39"]
    /\ UNCHANGED <<fields, x, y, slots, called, other, at, tout>>

\* float canonical_sdf = canonical_field(y, x);
Stmt39(t) ==
    /\ pc[t] = "L39"
    /\ frame' = [frame EXCEPT ![FrameOf(t)].canonical_sdf =
                     SampleAt(canonical_field, at[t][1], at[t][2])]
    /\ pc' = [pc EXCEPT ![t] = "L40"]
    /\ UNCHANGED <<fields, x, y, slots, called, other, at, tout>>

\* float difference = live_sdf - canonical_sdf;
Stmt40(t) ==
    /\ pc[t] = "L40"
    /\ frame' = [frame EXCEPT ![FrameOf(t)].difference =
                     Difference(frame[FrameOf(t)].live_sdf,
                                frame[FrameOf(t)].canonical_sdf)]
    /\ pc' = [pc EXCEPT ![t] = "L42"]
    /\ UNCHANGED <<fields, x, y, slots, called, other, at, tout>>

\* float gradient_x = live_gradient_x_field(y, x);
Stmt42(t) ==
    /\ pc[t] = "L42"
    /\ frame' = [frame EXCEPT ![FrameOf(t)].gradient_x =
                     SampleAt(live_gradient_x_field, at[t][1], at[t][2])]
    /\ pc' = [pc EXCEPT ![t] = "L43"]
    /\ UNCHANGED <<fields, x, y, slots, called, other, at, tout>>

\* float gradient_y = live_gradient_y_field(y, x);
Stmt43(t) ==
    /\ pc[t] = "L43"
    /\ frame' = [frame EXCEPT ![FrameOf(t)].gradient_y =
                     SampleAt(live_gradient_y_field, at[t][1], at[t][2])]
    /\ pc' = [pc EXCEPT ![t] = "L46"]
    /\ UNCHANGED <<fields, x, y, slots, called, other, at, tout>>

\* data_gradient_x = difference * gradient_x * scaling_factor;
Stmt46(t) ==
    /\ pc[t] = "L46"
    /\ tout' = [tout EXCEPT ![t].data_gradient_x =
                    Store(@, DataGradient(frame[FrameOf(t)].difference,
                                          frame[FrameOf(t)].gradient_x))]
    /\ pc' = [pc EXCEPT ![t] = "L47"]
    /\ UNCHANGED <<fields, x, y, slots, called, other, at, frame>>

\* data_gradient_y = difference * gradient_y * scaling_factor;
Stmt47(t) ==
    /\ pc[t] = "L47"
    /\ tout' = [tout EXCEPT ![t].data_gradient_y =
                    Store(@, DataGradient(frame[FrameOf(t)].difference,
                                          frame[FrameOf(t)].gradient_y))]
    /\ pc' = [pc EXCEPT ![t] = "L48"]
    /\ UNCHANGED <<fields, x, y, slots, called, other, at, frame>>

\* local_energy_contribution = 0.5F * difference * difference;
Stmt48(t) ==
    /\ pc[t] = "L48"
    /\ tout' = [tout EXCEPT ![t].local_energy_contribution =
                    Store(@, LocalEnergy(frame[FrameOf(t)].difference))]
    /\ pc' = [pc EXCEPT ![t] = "done"]
    /\ UNCHANGED <<fields, x, y, slots, called, other, at, frame>>

NextThreads ==
    \E t \in Threads :
        \/ Stmt38(t)
        \/ Stmt39(t)
        \/ Stmt40(t)
        \/ Stmt42(t)
        \/ Stmt43(t)
        \/ Stmt46(t)
        \/ Stmt47(t)
        \/ Stmt48(t)

SpecThreads == InitThreads /\ [][NextThreads]_vars


(***************************************************************************)
(* Properties                                                              *)
(***************************************************************************)
\* The values of the four fields at row y, column x.
LiveAt == Coeff(warped_live_field, y, x)
CanonicalAt == Coeff(canonical_field, y, x)
GradXAt == Coeff(live_gradient_x_field, y, x)
GradYAt == Coeff(live_gradient_y_field, y, x)

\* live - canonical as a float.
DifferenceAt == fsub(LiveAt, CanonicalAt)

\* The float nearest to the exact real number d * d / 2.
HalfSquare(d) ==
    IF IsNaN(d) THEN QuietNaN
    ELSE IF IsInf(d) THEN Infinity(0)
    ELSE RoundPack(0, WideMul(Mant(d), Mant(d)), 2 * Exp2(d) - 1)

Twenty == MkFloat(0, Bias + 4, 2^(FracBits - 2))

ExampleInputs ==
    /\ LiveAt = One
    /\ CanonicalAt = Half
    /\ GradXAt = Two
    /\ GradYAt = fneg(One)

\* C1: after a call at an in-range (x, y), local_energy_contribution is
\* 0.5 * (live - canonical)^2 for the values live, canonical of the two SDF
\* fields at row y, column x: the float nearest to half the square of the float
\* difference (NaN when the difference is NaN).
C1_Energy ==
    called => SameFloat(local_energy_contribution, HalfSquare(DifferenceAt))

\* live = 1.0, canonical = 0.5 gives energy 0.125.
C1_Witness ==
    /\ called
    /\ LiveAt = One
    /\ CanonicalAt = Half
    /\ local_energy_contribution = Eighth

\* C2: after a call, data_gradient_x is (live - canonical) * grad_x * 10.0 and
\* data_gradient_y is (live - canonical) * grad_y * 10.0, in float arithmetic
\* evaluated left to right, for the values at row y, column x.
C2_Gradient ==
    called =>
        /\ SameFloat(data_gradient_x, fmul(fmul(DifferenceAt, GradXAt), Ten))
        /\ SameFloat(data_gradient_y, fmul(fmul(DifferenceAt, GradYAt), Ten))

\* live = 1.0, canonical = 0.5, grad_x = 2.0, grad_y = -1.0 gives (10.0, -5.0).
C2_Witness ==
    /\ called
    /\ ExampleInputs
    /\ data_gradient_x = Ten
    /\ data_gradient_y = fneg(Five)

\* C3 as stated: whenever live equals canonical at the sampled cell, all three
\* outputs are 0, for every value of the two gradient fields at that cell.
C3_Original ==
    (called /\ FloatEq(LiveAt, CanonicalAt)) =>
        /\ IsZero(data_gradient_x)
        /\ IsZero(data_gradient_y)
        /\ IsZero(local_energy_contribution)

\* C3 as amended: whenever live equals canonical and the two are finite, the
\* energy is 0 and each gradient output is 0 if its gradient value is finite
\* and NaN if that value is infinite or NaN; when live and canonical are the
\* same infinity, all three outputs are NaN.
C3_Amended ==
    (called /\ FloatEq(LiveAt, CanonicalAt)) =>
        IF IsFinite(LiveAt)
        THEN /\ IsZero(local_energy_contribution)
             /\ IF IsFinite(GradXAt)
                THEN IsZero(data_gradient_x) ELSE IsNaN(data_gradient_x)
             /\ IF IsFinite(GradYAt)
                THEN IsZero(data_gradient_y) ELSE IsNaN(data_gradient_y)
        ELSE /\ IsNaN(local_energy_contribution)
             /\ IsNaN(data_gradient_x)
             /\ IsNaN(data_gradient_y)

C3_Witness ==
    /\ called
    /\ LiveAt = Half
    /\ CanonicalAt = Half
    /\ GradXAt = FltMax
    /\ GradYAt = fneg(Pow61)
    /\ IsZero(data_gradient_x)
    /\ IsZero(data_gradient_y)
    /\ IsZero(local_energy_contribution)

\* C4: the call with warped_live_field and canonical_field exchanged, the
\* gradient fields and (x, y) kept, gives the negated data_gradient_x and
\* data_gradient_y and the same local_energy_contribution.
C4_Swap ==
    (called /\ other.call = "swapped") =>
        /\ SameFloat(other.result.data_gradient_x, fneg(data_gradient_x))
        /\ SameFloat(other.result.data_gradient_y, fneg(data_gradient_y))
        /\ SameFloat(other.result.local_energy_contribution,
                     local_energy_contribution)

C4_Witness ==
    /\ called
    /\ other.call = "swapped"
    /\ ExampleInputs
    /\ data_gradient_x = Ten
    /\ other.result.data_gradient_x = fneg(Ten)
    /\ other.result.data_gradient_y = Five
    /\ other.result.local_energy_contribution = Eighth

\* The exact product d * g is zero or at least 2^-126 in magnitude: d * g does
\* not underflow.
ProductNormal(d, g) ==
    \/ ~IsFinite(d)
    \/ ~IsFinite(g)
    \/ IsZero(d)
    \/ IsZero(g)
    \/ LET w == WideMul(Mant(d), Mant(g))
       IN  WideLen(w[1], w[2]) - 1 + Exp2(d) + Exp2(g) >= 1 - Bias

\* Doubling g does not overflow.
DoublingFinite(g) == IsFinite(g) => IsFinite(fmul(Two, g))

\* C5 as stated: doubling the values of both gradient fields at (x, y) doubles
\* both gradient outputs and leaves the energy unchanged.
C5_Original ==
    (called /\ other.call = "doubled") =>
        /\ SameFloat(other.result.data_gradient_x, fmul(Two, data_gradient_x))
        /\ SameFloat(other.result.data_gradient_y, fmul(Two, data_gradient_y))
        /\ SameFloat(other.result.local_energy_contribution,
                     local_energy_contribution)

\* C5 as amended: doubling the values of both gradient fields at (x, y) leaves
\* the energy unchanged, and doubles a gradient output whenever doubling its
\* gradient value does not overflow to infinity and the exact product of the
\* difference and that gradient value is zero or at least 2^-126 in magnitude.
C5_Amended ==
    (called /\ other.call = "doubled") =>
        /\ (DoublingFinite(GradXAt) /\ ProductNormal(DifferenceAt, GradXAt)) =>
               SameFloat(other.result.data_gradient_x,
                         fmul(Two, data_gradient_x))
        /\ (DoublingFinite(GradYAt) /\ ProductNormal(DifferenceAt, GradYAt)) =>
               SameFloat(other.result.data_gradient_y,
                         fmul(Two, data_gradient_y))
        /\ SameFloat(other.result.local_energy_contribution,
                     local_energy_contribution)

C5_Witness ==
    /\ called
    /\ other.call = "doubled"
    /\ ExampleInputs
    /\ data_gradient_x = Ten
    /\ other.result.data_gradient_x = Twenty
    /\ other.result.data_gradient_y = fneg(Ten)
    /\ other.result.local_energy_contribution = Eighth

\* The number a float or a double stands for: its class, sign, and odd
\* significand with exponent.
RECURSIVE OddPart(_, _)
OddPart(M, E) == IF M % 2 = 0 THEN OddPart(M \div 2, E + 1) ELSE <<M, E>>

FloatValue(f) ==
    IF IsNaN(f) THEN <<"nan">>
    ELSE IF IsInf(f) THEN <<"inf", f.sign>>
    ELSE IF IsZero(f) THEN <<"zero", f.sign>>
    ELSE <<"number", f.sign, OddPart(Mant(f), Exp2(f))>>

DoubleValue(d) ==
    IF d.exponent = DoubleExpMax
    THEN IF d.fraction_hi = 0 /\ d.fraction_lo = 0
         THEN <<"inf", d.sign>> ELSE <<"nan">>
    ELSE IF d.exponent = 0
    THEN IF d.fraction_hi = 0 /\ d.fraction_lo = 0
         THEN <<"zero", d.sign>> ELSE <<"below float range">>
    ELSE IF d.fraction_lo # 0
    THEN <<"beyond float precision">>
    ELSE <<"number", d.sign,
           OddPart(HiddenBit + d.fraction_hi,
                   d.exponent - DoubleBias - FracBits)>>

\* C6: the adapter returns a 2-tuple whose first element is the 2-vector
\* (data_gradient_x, data_gradient_y), in that order, and whose second element
\* is local_energy_contribution, each equal to what data_term_at_location
\* itself produces for the same fields and (x, y).
C6_Adapter ==
    (called /\ other.call = "py") =>
        /\ Len(other.result) = 2
        /\ other.result[1] = <<data_gradient_x, data_gradient_y>>
        /\ DoubleValue(other.result[2]) = FloatValue(local_energy_contribution)

\* The adapter returns ((10.0, -5.0), 0.125) for the example inputs.
C6_Witness ==
    /\ called
    /\ other.call = "py"
    /\ ExampleInputs
    /\ other.result = <<<<Ten, fneg(Five)>>, MkDouble(0, DoubleBias - 3, 0, 0)>>

\* What the call of thread t gives when the calls run one after another.
Sequential(t) ==
    Outputs(data_term_at_location(warped_live_field, canonical_field,
                at[t][1], at[t][2],
                live_gradient_x_field, live_gradient_y_field, FreshSlots))

\* C7: concurrent unsynchronized calls on the same four fields, at different or
\* identical locations, each with its own output slots, give in every
\* interleaving the outputs the same calls give when run one after another.
C7_Concurrent ==
    \A t \in Threads : pc[t] = "done" => tout[t] = Sequential(t)

C7_Witness ==
    /\ \A t \in Threads : pc[t] = "done"
    /\ at[1] # at[2]
    /\ tout[1] # tout[2]
    /\ \A t \in Threads : tout[t] = Sequential(t)

\* C8: a call leaves the four fields and the location unchanged and keeps no
\* state: whatever calls ran before, the reference call and its repetition
\* with equal inputs hold equal outputs.
C8_Frame ==
    [][/\ UNCHANGED <<fields, x, y>>
       /\ (called' /\ other'.call = "repeat") => other'.result = CurrentSlots'
      ]_vars

C8_Witness ==
    /\ called
    /\ other.call = "repeat"
    /\ ExampleInputs
    /\ other.result = CurrentSlots
    /\ data_gradient_x = Ten
    /\ data_gradient_y = fneg(Five)
    /\ local_energy_contribution = Eighth

FiniteOutputs ==
    /\ IsFinite(data_gradient_x)
    /\ IsFinite(data_gradient_y)
    /\ IsFinite(local_energy_contribution)

\* |f| <= 2^61
AtMostPow61(f) ==
    \/ f.exponent < Bias + 61
    \/ f.exponent = Bias + 61 /\ f.fraction = 0

\* C9 as stated: for finite values in all four fields at (x, y), the three
\* outputs are finite.
C9_Original ==
    (/\ called
     /\ IsFinite(LiveAt)
     /\ IsFinite(CanonicalAt)
     /\ IsFinite(GradXAt)
     /\ IsFinite(GradYAt)) => FiniteOutputs

\* C9 as amended: for values of magnitude at most 2^61 in all four fields at
\* (x, y), the three outputs are finite.
C9_Amended ==
    (/\ called
     /\ AtMostPow61(LiveAt)
     /\ AtMostPow61(CanonicalAt)
     /\ AtMostPow61(GradXAt)
     /\ AtMostPow61(GradYAt)) => FiniteOutputs

\* The largest case: difference 2^62, gradients +-2^61, outputs +-1.25 * 2^126.
C9_Witness ==
    /\ called
    /\ LiveAt = Pow61
    /\ CanonicalAt = fneg(Pow61)
    /\ GradXAt = Pow61
    /\ GradYAt = fneg(Pow61)
    /\ data_gradient_x = MkFloat(0, Bias + 126, 2^(FracBits - 2))
    /\ data_gradient_y = MkFloat(1, Bias + 126, 2^(FracBits - 2))
    /\ local_energy_contribution = MkFloat(0, Bias + 123, 0)

\* C10: the kernel samples the four fields at row y, column x, for fields of
\* any shape: after the owner has rewritten other cells of the fields, the
\* repeated call gives the outputs of the first call.
C10_Index ==
    (called /\ other.call = "repeat") => other.result = CurrentSlots

\* A non-square field, a cell (row y, column x) off the diagonal, and the
\* transposed cell (row x, column y) rewritten between the two calls.
C10_Witness ==
    /\ called
    /\ other.call = "repeat"
    /\ warped_live_field.rows # warped_live_field.cols
    /\ x # y
    /\ <<1, x, y>> \in Edited
    /\ other.result = CurrentSlots

=============================================================================
